---- MODULE Spec2Model ----
(***************************************************************************)
(* Release-bundle promotion sync between two JFrog platforms.              *)
(*                                                                         *)
(*   Spec       sweep-mode sync, src/existingpromotions/sync_rb_promotions *)
(*   SpecTwice  the same script run twice                                  *)
(*   SpecFair   one run of it in which every call returns                  *)
(*   SpecFilter one run of it for each kind of project filter              *)
(*   SpecAudit  the same script over trails with federated mirrors and     *)
(*              timestamps that are absent or not numbers                  *)
(*   SpecRoot   sweep-mode sync, src/sync_rb_promotions.py                 *)
(*   SpecParse  parse_repos_to_set on its own                              *)
(*   SpecEvent  event-triggered sync, src/promote_release_bundle.py, run   *)
(*              by two cross-wired systems A and B                         *)
(*                                                                         *)
(* A string of the program is a sequence of one-character strings, so that *)
(* split(','), strip() and ','.join() are computed, not assumed.           *)
(***************************************************************************)
EXTENDS Integers, Sequences, FiniteSets, TLC

(***************************************************************************)
(* Bounds of the model.                                                    *)
(***************************************************************************)
\* number of audit events the source and the target system hold before a
\* single run, over all identities
MaxEvents == 3
\* the same number before the first of two runs, and before a run under
\* SpecFair or SpecFilter
MaxEventsTwice == 2
\* the same number, for trails with federated mirrors and timestamps that
\* are absent or not numbers
MaxAuditEvents == 2
\* number of audit events the two systems hold before a run of
\* src/sync_rb_promotions.py, over all identities
MaxRootEvents == 3
\* number of elements of a repository filter given to parse_repos_to_set
MaxListLen == 2
\* number of requests and commands that fail, over all runs
MaxFaults == 1
\* number of audit events the two systems hold before the first promotion
\* (event-triggered mode)
MaxPriorEvents == 1
\* number of promotions users make by hand (event-triggered mode)
MaxUserPromotions == 2

(***************************************************************************)
(* Values.                                                                 *)
(***************************************************************************)
\* Python's None, and the value .get() gives for a key that is absent
NoneVal == "<None>"
\* an audit event without the created_millis key
NoMillis == 0 - 1
\* the created_millis 'N/A'
NotAvailable == 0 - 3
\* a created_millis that is a string int() does not convert, such as 'abc';
\* the integers from 0 on are the timestamps that are numbers
NotANumber == 0 - 2

Comma == ","
Space == " "

\* repository-filter strings
StrA == <<"a">>
StrB == <<"b">>
StrAB == <<"a", ",", "b">>
StrASpB == <<"a", ",", " ", "b">>

(***************************************************************************)
(* String functions of Python, on sequences of characters.                 *)
(***************************************************************************)
\* s.split(','): the segments between commas, "" included; ''.split(',') = ['']
RECURSIVE SplitFrom(_, _, _)
SplitFrom(s, i, cur) ==
    IF i > Len(s) THEN <<cur>>
    ELSE IF s[i] = Comma THEN <<cur>> \o SplitFrom(s, i + 1, << >>)
    ELSE SplitFrom(s, i + 1, Append(cur, s[i]))

Split(s) == SplitFrom(s, 1, << >>)

RECURSIVE LStrip(_)
LStrip(s) ==
    IF s # << >> /\ Head(s) = Space THEN LStrip(Tail(s)) ELSE s

RECURSIVE RStrip(_)
RStrip(s) ==
    IF s # << >> /\ s[Len(s)] = Space THEN RStrip(SubSeq(s, 1, Len(s) - 1)) ELSE s

\* s.strip()
Strip(s) == RStrip(LStrip(s))

\* ','.join(lst)
RECURSIVE Join(_)
Join(lst) ==
    IF lst = << >> THEN << >>
    ELSE IF Len(lst) = 1 THEN lst[1]
    ELSE lst[1] \o <<Comma>> \o Join(Tail(lst))

\* a variant that does not split the elements at the commas
ParseReposToSetUnsplit(repo_list) ==
    IF repo_list = << >> THEN {}
    ELSE { Strip(repo_list[i]) : i \in DOMAIN repo_list }

\* parse_repos_to_set(repo_list): None and [] give the empty set
ParseReposToSet(repo_list) ==
    IF repo_list = << >> THEN {}
    ELSE UNION { { Strip(seg) : seg \in { Split(repo_list[i])[j] : j \in DOMAIN Split(repo_list[i]) } }
                 : i \in DOMAIN repo_list }

(***************************************************************************)
(* Audit events, as the lifecycle audit API returns them.                  *)
(***************************************************************************)
RefPlain == <<"p">>
RefFed == <<"F", "E", "D", "-", "p">>
FedPrefix == <<"F", "E", "D", "-">>

\* str.startswith(prefix)
StartsWith(s, prefix) ==
    /\ Len(s) >= Len(prefix)
    /\ SubSeq(s, 1, Len(prefix)) = prefix

\* one audit event without its timestamp
Template(st, es, ref, env, inc, exc) ==
    [subject_type |-> st, event_status |-> es, subject_reference |-> ref,
     environment |-> env, included_repository_keys |-> inc,
     excluded_repository_keys |-> exc]

TDev == Template("PROMOTION", "COMPLETED", RefPlain, "DEV", << >>, << >>)
TStg == Template("PROMOTION", "COMPLETED", RefPlain, "STAGING", <<StrASpB>>, << >>)
TNoEnv == Template("PROMOTION", "COMPLETED", RefPlain, NoneVal, << >>, << >>)
TStgBA == Template("PROMOTION", "COMPLETED", RefPlain, "STAGING", <<StrB, StrA>>, << >>)
TFailed == Template("PROMOTION", "FAILED", RefPlain, "DEV", << >>, << >>)
TCreated == Template("RELEASE_BUNDLE_VERSION", "COMPLETED", RefPlain, NoneVal, << >>, << >>)
TFed == Template("PROMOTION", "COMPLETED", RefFed, "DEV", << >>, << >>)

\* the events a source history is drawn from
SrcTemplates == {TDev, TStg, TNoEnv, TFailed}
\* the events a target history is drawn from
TgtTemplates == {TDev, TStgBA, TCreated}

\* an audit event: a template and the time the server recorded it
Stamp(t, ms) ==
    [subject_type |-> t.subject_type, event_status |-> t.event_status,
     subject_reference |-> t.subject_reference, environment |-> t.environment,
     included_repository_keys |-> t.included_repository_keys,
     excluded_repository_keys |-> t.excluded_repository_keys,
     created_millis |-> ms, promotion_created_millis |-> ms]

\* a server's audit trail in the order of recording; the i-th event was
\* recorded at time i - 1
StampAll(ts) == [i \in DOMAIN ts |-> Stamp(ts[i], i - 1)]

SeqsUpTo(S, n) == UNION { [1..k -> S] : k \in 0..n }

RECURSIVE Reverse(_)
Reverse(s) == IF s = << >> THEN << >> ELSE Append(Reverse(Tail(s)), Head(s))

\* the audit API lists the newest event first
AuditResponse(trail) == Reverse(trail)

(***************************************************************************)
(* Sweep mode: the pure part of main().                                    *)
(***************************************************************************)
\* x.get('created_millis', 0), the sort key
SortKey(e) == IF e.created_millis = NoMillis THEN 0 ELSE e.created_millis

\* list.sort(key=...): stable, ascending
RECURSIVE InsertSorted(_, _)
InsertSorted(sorted, e) ==
    IF sorted = << >> THEN <<e>>
    ELSE IF SortKey(sorted[Len(sorted)]) <= SortKey(e) THEN Append(sorted, e)
    ELSE Append(InsertSorted(SubSeq(sorted, 1, Len(sorted) - 1), e), sorted[Len(sorted)])

RECURSIVE SortByCreatedMillis(_)
SortByCreatedMillis(s) ==
    IF s = << >> THEN << >>
    ELSE InsertSorted(SortByCreatedMillis(SubSeq(s, 1, Len(s) - 1)), s[Len(s)])

\* list.sort raises TypeError when it compares a str key with an int key
SortRaises(s) ==
    \E i \in DOMAIN s, j \in DOMAIN s :
        SortKey(s[i]) = NotANumber /\ SortKey(s[j]) # NotANumber

\* the test of the audit loop of get_release_bundle_audit_history
IsCompletedPromotion(e) ==
    e.subject_type = "PROMOTION" /\ e.event_status = "COMPLETED"

\* get_release_bundle_audit_history, for a request that succeeded and a sort
\* that did not raise
CompletedPromotions(audits) ==
    SortByCreatedMillis(SelectSeq(audits, IsCompletedPromotion))

\* get_release_bundle_audit_history ends with an exception nothing catches
HistoryRaises(audits) == SortRaises(SelectSeq(audits, IsCompletedPromotion))

\* get_promo_signature(promo)
GetPromoSignature(promo) ==
    <<promo.environment,
      ParseReposToSet(promo.included_repository_keys),
      ParseReposToSet(promo.excluded_repository_keys)>>

\* Counter(...)[sig]
CountOf(promos, sig) ==
    Cardinality({ i \in DOMAIN promos : GetPromoSignature(promos[i]) = sig })

\* the keys of Counter(...), in the order of first occurrence
RECURSIVE CounterKeys(_, _)
CounterKeys(promos, seen) ==
    IF promos = << >> THEN << >>
    ELSE IF GetPromoSignature(Head(promos)) \in seen THEN CounterKeys(Tail(promos), seen)
    ELSE <<GetPromoSignature(Head(promos))>>
         \o CounterKeys(Tail(promos), seen \cup {GetPromoSignature(Head(promos))})

\* the first event of reversed(source_promotions) with the signature
LastWithSignature(promos, sig) ==
    promos[CHOOSE i \in DOMAIN promos :
              /\ GetPromoSignature(promos[i]) = sig
              /\ \A j \in DOMAIN promos : GetPromoSignature(promos[j]) = sig => j <= i]

Repeat(e, n) == [i \in 1..n |-> e]

\* a variant that replays a signature only when the target has none of it
SyncForSignatureIfAbsent(source_promotions, target_promotions, sig) ==
    IF CountOf(target_promotions, sig) = 0
    THEN Repeat(LastWithSignature(source_promotions, sig), CountOf(source_promotions, sig))
    ELSE << >>

\* a variant that replays a signature once, whatever its deficit
SyncForSignatureOnce(source_promotions, target_promotions, sig) ==
    IF CountOf(source_promotions, sig) > CountOf(target_promotions, sig)
    THEN <<LastWithSignature(source_promotions, sig)>>
    ELSE << >>

\* what one signature adds to promotions_to_sync
SyncForSignature(source_promotions, target_promotions, sig) ==
    IF CountOf(source_promotions, sig) > CountOf(target_promotions, sig)
    THEN Repeat(LastWithSignature(source_promotions, sig),
                CountOf(source_promotions, sig) - CountOf(target_promotions, sig))
    ELSE << >>

RECURSIVE SyncForKeys(_, _, _)
SyncForKeys(keys, source_promotions, target_promotions) ==
    IF keys = << >> THEN << >>
    ELSE SyncForSignature(source_promotions, target_promotions, Head(keys))
         \o SyncForKeys(Tail(keys), source_promotions, target_promotions)

\* a variant that selects every source record, whatever the target holds
PromotionsToSyncAll(source_promotions, target_promotions, environment_filter) ==
    source_promotions

\* promotions_to_sync; the environment filter is an argument the loop never reads
PromotionsToSync(source_promotions, target_promotions, environment_filter) ==
    SyncForKeys(CounterKeys(source_promotions, {}), source_promotions, target_promotions)

(***************************************************************************)
(* Sweep mode: state.                                                      *)
(***************************************************************************)
\* the answer of /release_bundle/names on the source
Bundles ==
    << [release_bundle_name |-> "b1", repository_key |-> "r1", project_key |-> "p1"],
       [release_bundle_name |-> "b2", repository_key |-> "r2", project_key |-> NoneVal] >>

\* the answer of /release_bundle/records/{name} on the source, per bundle
VersionsOf == << <<"v1">>, <<"v1">> >>

\* a bundle identity: the index of the bundle and the index of its version
Ids == UNION { { <<b, v>> : v \in DOMAIN VersionsOf[b] } : b \in DOMAIN Bundles }

\* rb_name_info.get("project_key", "default")
ProjectKeyOf(rb_name_info) ==
    IF rb_name_info.project_key = NoneVal THEN "default" ELSE rb_name_info.project_key

VARIABLES
    source,               \* source system: identity -> audit trail
    target,               \* target system: identity -> audit trail
    environment_filter,   \* args.environmentfilter
    project_filter,       \* args.project_filter
    pc,                   \* where main() is
    bi,                   \* index of rb_name_info in the outer loop
    vi,                   \* index of rb_version_info in the inner loop
    promotions_to_sync,   \* the replay list of the current identity
    pi,                   \* index of promo_event in the replay loop
    exit_status,          \* exit status of the process, once pc = "done"
    log,                  \* the requests of this run, in the order they were made
    pass,                 \* number of the run
    selected,             \* identity -> promotions_to_sync as this run computed it
    reconciled,           \* identities whose two histories this run fetched
    fetched,              \* identity -> the two histories as this run fetched them
    finished,             \* identities whose replay loop this run has ended
    prevLog,              \* the requests of the first run, during the second
    prevFinished,         \* the identities the first run finished
    faults                \* number of requests and commands that have failed

sweepVars ==
    <<source, target, environment_filter, project_filter, pc, bi, vi,
      promotions_to_sync, pi, exit_status, log, pass, selected, reconciled,
      fetched, finished, prevLog, prevFinished, faults>>

\* the state of the event-triggered script
VARIABLES
    trails,                   \* system -> audit trail of the bundle version
    events,                   \* promotion events whose run has not started
    e_pc,                     \* where main() of the current run is
    env_vars,                 \* os.getenv of the current run
    source_promotion_event,   \* the event found on the source
    e_exit,                   \* exit status of the last run that ended
    e_log,                    \* the requests of the current run
    replays,                  \* system -> number of promotions the script made on it
    userPromotions            \* system -> number of promotions users made on it

eventVars ==
    <<trails, events, e_pc, env_vars, source_promotion_event, e_exit, e_log,
      replays, userPromotions>>

\* parse_repos_to_set, applied on its own
VARIABLES
    repo_list,            \* the argument: given or None, and the list when given
    parsed_set,           \* parse_repos_to_set(repo_list)
    reparsed_set,         \* parse_repos_to_set(parsed_set)
    p_pc                  \* which of the two calls have been made

parseVars == <<repo_list, parsed_set, reparsed_set, p_pc>>

TotalLen(f) ==
    LET RECURSIVE Sum(_)
        Sum(S) == IF S = {} THEN 0
                  ELSE LET x == CHOOSE y \in S : TRUE IN Len(f[x]) + Sum(S \ {x})
    IN Sum(DOMAIN f)

\* the trails a system can hold: n events in all
Stores(templates, n) ==
    { [id \in Ids |-> StampAll(f[id])] :
        f \in { g \in [Ids -> SeqsUpTo(templates, n)] : TotalLen(g) = n } }

\* the trails the two systems can hold: at most n events in all
StorePairs(n) ==
    UNION { Stores(SrcTemplates, st[1]) \X Stores(TgtTemplates, st[2]) :
              st \in { xy \in (0..n) \X (0..n) : xy[1] + xy[2] <= n } }

Entry(op, sys, id, ok, env, millis) ==
    [op |-> op, sys |-> sys, id |-> id, ok |-> ok, env |-> env, millis |-> millis]

NoId == <<0, 0>>

NothingFetched ==
    [id \in Ids |-> [source_promotions |-> << >>, target_promotions |-> << >>]]

\* the script at the start of main()
InitRun ==
    /\ pc = "configure"
    /\ bi = 1
    /\ vi = 1
    /\ promotions_to_sync = << >>
    /\ pi = 1
    /\ exit_status = 0
    /\ log = << >>
    /\ pass = 1
    /\ selected = [id \in Ids |-> << >>]
    /\ reconciled = {}
    /\ fetched = NothingFetched
    /\ finished = {}
    /\ prevLog = << >>
    /\ prevFinished = {}
    /\ faults = 0

InitSweep ==
    /\ \E st \in StorePairs(MaxEvents) : source = st[1] /\ target = st[2]
    /\ environment_filter \in {"", "DEV"}
    /\ project_filter \in {NoneVal, "p1"}
    /\ InitRun

\* the events of an audit trail that holds federated mirrors and timestamps
\* that are absent or not numbers
AuditTemplates == {TDev, TStg, TFed}
AuditMillis == {NoMillis, NotANumber, 1}
AuditEvents == { Stamp(t, ms) : t \in AuditTemplates, ms \in AuditMillis }

\* such trails for the first identity, at most MaxAuditEvents events in all
InitAuditSweep ==
    /\ \E s \in SeqsUpTo(AuditEvents, MaxAuditEvents), t \in SeqsUpTo(AuditEvents, MaxAuditEvents) :
         /\ Len(s) + Len(t) <= MaxAuditEvents
         /\ source = [id \in Ids |-> IF id = <<1, 1>> THEN s ELSE << >>]
         /\ target = [id \in Ids |-> IF id = <<1, 1>> THEN t ELSE << >>]
    /\ environment_filter = ""
    /\ project_filter = NoneVal
    /\ InitRun

\* parse_repos_to_set is not applied on its own
InitParseIdle ==
    /\ repo_list = [given |-> FALSE, list |-> << >>]
    /\ parsed_set = {}
    /\ reparsed_set = {}
    /\ p_pc = "off"

\* the sweep script is not run
InitSweepIdle ==
    /\ source = [id \in Ids |-> << >>]
    /\ target = [id \in Ids |-> << >>]
    /\ environment_filter = ""
    /\ project_filter = NoneVal
    /\ pc = "off"
    /\ bi = 1
    /\ vi = 1
    /\ promotions_to_sync = << >>
    /\ pi = 1
    /\ exit_status = 0
    /\ log = << >>
    /\ pass = 1
    /\ selected = [id \in Ids |-> << >>]
    /\ reconciled = {}
    /\ fetched = NothingFetched
    /\ finished = {}
    /\ prevLog = << >>
    /\ prevFinished = {}
    /\ faults = 0

vars == <<sweepVars, eventVars, parseVars>>

(***************************************************************************)
(* Sweep mode: the steps of main().                                        *)
(***************************************************************************)
\* Python's truth value of an environment: None and '' are false
Truthy(env) == env # NoneVal /\ env # ""

\* `if original_promotion_millis:` an absent timestamp and 0 are false, a
\* string that is not empty is true
TruthyMillis(ms) == ms # NoMillis /\ ms # 0

\* the time the target records a new event at: after everything it holds
ServerNow(trail) ==
    LET times == { trail[i].created_millis : i \in DOMAIN trail } \cup {0}
    IN 1 + CHOOSE m \in times : \A n \in times : n <= m

\* a variant in which the command is built without the repository options
RecordedReposDropped(repos) == << >>

\* the list a repository option of `jf rbp` carries, as the target records it
RecordedRepos(repos) == IF repos = << >> THEN << >> ELSE Split(Join(repos))

\* the event `jf rbp ... <env> --include-repos=.. --exclude-repos=..` leaves
\* on the target
PromotedEvent(trail, env, inc, exc) ==
    Stamp(Template("PROMOTION", "COMPLETED", RefPlain, env,
                   RecordedRepos(inc), RecordedRepos(exc)),
          ServerNow(trail))

\* the target after `jf rbp` succeeded
Promote(trail, env, inc, exc) == Append(trail, PromotedEvent(trail, env, inc, exc))

\* the target after the promotion-records request with
\* promotion_created_millis=ms succeeded: its newest event is at ms
Realign(trail, ms) ==
    IF trail = << >> \/ ms < 0 THEN trail
    ELSE [trail EXCEPT ![Len(trail)] = Stamp(trail[Len(trail)], ms)]

\* int(original_promotion_millis) + 1, and the original value when int()
\* raises ValueError or TypeError
UpdatedMillis(original_promotion_millis) ==
    IF original_promotion_millis >= 0 THEN original_promotion_millis + 1
    ELSE original_promotion_millis

\* the number of failures among the outcomes of some requests
Failed(oks) == Cardinality({ i \in DOMAIN oks : ~oks[i] })

\* the outcomes the requests of one step can have
Outcomes(n) == { oks \in [1..n -> BOOLEAN] : faults + Failed(oks) <= MaxFaults }

\* jf c remove / jf c add / jf c use; a failure ends the run with status 1
Configure ==
    /\ pc = "configure"
    /\ \E oks \in Outcomes(1) :
         /\ faults' = faults + Failed(oks)
         /\ IF oks[1] THEN /\ pc' = "names"
                           /\ exit_status' = exit_status
            ELSE /\ pc' = "done"
                 /\ exit_status' = 1
    /\ UNCHANGED <<source, target, environment_filter, project_filter, bi, vi,
                   promotions_to_sync, pi, log, pass, selected, reconciled,
                   fetched, finished, prevLog, prevFinished>>
    /\ UNCHANGED <<eventVars, parseVars>>

\* get_release_bundle_names_with_project_keys; no answer ends the run with 0
GetNames ==
    /\ pc = "names"
    /\ \E oks \in Outcomes(1) :
         /\ faults' = faults + Failed(oks)
         /\ log' = Append(log, Entry("names", "source", NoId, oks[1], NoneVal, NoMillis))
         /\ IF oks[1] THEN /\ pc' = "bundle"
                           /\ bi' = 1
                           /\ exit_status' = exit_status
            ELSE /\ pc' = "done"
                 /\ bi' = bi
                 /\ exit_status' = 0
    /\ UNCHANGED <<source, target, environment_filter, project_filter, vi,
                   promotions_to_sync, pi, pass, selected, reconciled, fetched,
                   finished, prevLog, prevFinished>>
    /\ UNCHANGED <<eventVars, parseVars>>

\* a variant without the project filter
FilteredOutNever(rb_name_info, filter) == FALSE

\* `if project_filter and current_project_key != project_filter`
FilteredOut(rb_name_info, filter) ==
    filter # NoneVal /\ filter # "" /\ ProjectKeyOf(rb_name_info) # filter

\* one round of the loop over the bundle names: the project filter and
\* get_release_bundle_versions
NextBundle ==
    /\ pc = "bundle"
    /\ bi <= Len(Bundles)
    /\ IF FilteredOut(Bundles[bi], project_filter)
       THEN /\ bi' = bi + 1
            /\ UNCHANGED <<pc, vi, log, faults>>
       ELSE \E oks \in Outcomes(1) :
              /\ faults' = faults + Failed(oks)
              /\ log' = Append(log, Entry("versions", "source", <<bi, 0>>, oks[1], NoneVal, NoMillis))
              /\ IF oks[1] /\ VersionsOf[bi] # << >>
                 THEN /\ pc' = "version"
                      /\ vi' = 1
                      /\ bi' = bi
                 ELSE /\ bi' = bi + 1
                      /\ UNCHANGED <<pc, vi>>
    /\ UNCHANGED <<source, target, environment_filter, project_filter,
                   promotions_to_sync, pi, exit_status, pass, selected,
                   reconciled, fetched, finished, prevLog, prevFinished>>
    /\ UNCHANGED <<eventVars, parseVars>>

\* main() returns after the last bundle name: the process ends with status 0
Finish ==
    /\ pc = "bundle"
    /\ bi > Len(Bundles)
    /\ pc' = "done"
    /\ exit_status' = 0
    /\ UNCHANGED <<source, target, environment_filter, project_filter, bi, vi,
                   promotions_to_sync, pi, log, pass, selected, reconciled,
                   fetched, finished, prevLog, prevFinished, faults>>
    /\ UNCHANGED <<eventVars, parseVars>>

\* a variant that tests the source history only
FetchFailedSourceOnly(srcOk, tgtOk) == ~srcOk

\* `if source_promotions is None or target_promotions is None`
FetchFailed(srcOk, tgtOk) == ~srcOk \/ ~tgtOk

\* one round of the loop over the versions, up to the replay loop: the two
\* history requests, the signature counts and promotions_to_sync
ProcessVersion ==
    /\ pc = "version"
    /\ vi <= Len(VersionsOf[bi])
    /\ \E oks \in Outcomes(2) :
         \E source_promotions \in {CompletedPromotions(AuditResponse(source[<<bi, vi>>]))},
            target_promotions \in {CompletedPromotions(AuditResponse(target[<<bi, vi>>]))} :
         \E pts \in {PromotionsToSync(source_promotions, target_promotions, environment_filter)} :
         LET id == <<bi, vi>>
             sourceRaises == oks[1] /\ HistoryRaises(AuditResponse(source[id]))
             targetRaises == oks[2] /\ HistoryRaises(AuditResponse(target[id]))
         IN /\ faults' = faults + Failed(oks)
            /\ IF sourceRaises
               THEN \* the traceback ends the process before the target is asked
                    /\ oks[2]
                    /\ log' = Append(log, Entry("history", "source", id, oks[1], NoneVal, NoMillis))
                    /\ pc' = "done"
                    /\ exit_status' = 1
                    /\ UNCHANGED <<vi, promotions_to_sync, pi, selected, reconciled,
                                   fetched, finished>>
               ELSE /\ log' = log \o << Entry("history", "source", id, oks[1], NoneVal, NoMillis),
                                        Entry("history", "target", id, oks[2], NoneVal, NoMillis) >>
                    /\ IF targetRaises
                       THEN /\ pc' = "done"
                            /\ exit_status' = 1
                            /\ UNCHANGED <<vi, promotions_to_sync, pi, selected, reconciled,
                                           fetched, finished>>
                       ELSE IF FetchFailed(oks[1], oks[2])
                       THEN /\ vi' = vi + 1
                            /\ UNCHANGED <<pc, promotions_to_sync, pi, selected, reconciled,
                                           fetched, finished, exit_status>>
                       ELSE /\ selected' = [selected EXCEPT ![id] = pts]
                            /\ reconciled' = reconciled \cup {id}
                            /\ fetched' = [fetched EXCEPT ![id] =
                                             [source_promotions |-> source_promotions,
                                              target_promotions |-> target_promotions]]
                            /\ exit_status' = exit_status
                            /\ IF pts = << >>
                               THEN /\ vi' = vi + 1
                                    /\ finished' = finished \cup {id}
                                    /\ UNCHANGED <<pc, promotions_to_sync, pi>>
                               ELSE /\ pc' = "replay"
                                    /\ promotions_to_sync' = pts
                                    /\ pi' = 1
                                    /\ UNCHANGED <<vi, finished>>
    /\ UNCHANGED <<source, target, environment_filter, project_filter, bi,
                   pass, prevLog, prevFinished>>
    /\ UNCHANGED <<eventVars, parseVars>>

\* a variant in which the loop over the bundle names does not advance
VersionsDoneAgain ==
    /\ pc = "version"
    /\ vi > Len(VersionsOf[bi])
    /\ pc' = "bundle"
    /\ bi' = bi
    /\ UNCHANGED <<source, target, environment_filter, project_filter, vi,
                   promotions_to_sync, pi, exit_status, log, pass, selected,
                   reconciled, fetched, finished, prevLog, prevFinished, faults>>
    /\ UNCHANGED <<eventVars, parseVars>>

\* the loop over the versions of one bundle name is exhausted
VersionsDone ==
    /\ pc = "version"
    /\ vi > Len(VersionsOf[bi])
    /\ pc' = "bundle"
    /\ bi' = bi + 1
    /\ UNCHANGED <<source, target, environment_filter, project_filter, vi,
                   promotions_to_sync, pi, exit_status, log, pass, selected,
                   reconciled, fetched, finished, prevLog, prevFinished, faults>>
    /\ UNCHANGED <<eventVars, parseVars>>

\* a variant without the check of the environment
ReplayRequestsAnyEnvironment(id, promo_event, ok, updOk) ==
    IF ~ok \/ ~TruthyMillis(promo_event.created_millis)
    THEN << Entry("rbp", "target", id, ok, promo_event.environment, promo_event.created_millis) >>
    ELSE << Entry("rbp", "target", id, ok, promo_event.environment, promo_event.created_millis),
            Entry("align", "target", id, updOk, promo_event.environment,
                  UpdatedMillis(promo_event.created_millis)) >>

\* a variant in which the timestamp request is made before the promotion
ReplayRequestsAlignFirst(id, promo_event, ok, updOk) ==
    IF ~Truthy(promo_event.environment) THEN << >>
    ELSE IF ~ok \/ ~TruthyMillis(promo_event.created_millis)
    THEN << Entry("rbp", "target", id, ok, promo_event.environment, promo_event.created_millis) >>
    ELSE << Entry("align", "target", id, updOk, promo_event.environment,
                  UpdatedMillis(promo_event.created_millis)),
            Entry("rbp", "target", id, ok, promo_event.environment, promo_event.created_millis) >>

\* a variant in which the CLI is configured for the source server
ReplayRequestsToSource(id, promo_event, ok, updOk) ==
    IF ~Truthy(promo_event.environment) THEN << >>
    ELSE IF ~ok \/ ~TruthyMillis(promo_event.created_millis)
    THEN << Entry("rbp", "source", id, ok, promo_event.environment, promo_event.created_millis) >>
    ELSE << Entry("rbp", "source", id, ok, promo_event.environment, promo_event.created_millis),
            Entry("align", "target", id, updOk, promo_event.environment,
                  UpdatedMillis(promo_event.created_millis)) >>

\* a variant in which the timestamp request is outside the try block
ReplayRequestsAlignAlways(id, promo_event, ok, updOk) ==
    IF ~Truthy(promo_event.environment) THEN << >>
    ELSE IF ~TruthyMillis(promo_event.created_millis)
    THEN << Entry("rbp", "target", id, ok, promo_event.environment, promo_event.created_millis) >>
    ELSE << Entry("rbp", "target", id, ok, promo_event.environment, promo_event.created_millis),
            Entry("align", "target", id, updOk, promo_event.environment,
                  UpdatedMillis(promo_event.created_millis)) >>

\* the requests one round of the replay loop makes for promo_event, given the
\* outcome of `jf rbp` and of the timestamp request
ReplayRequests(id, promo_event, ok, updOk) ==
    IF ~Truthy(promo_event.environment) THEN << >>
    ELSE IF ~ok \/ ~TruthyMillis(promo_event.created_millis)
    THEN << Entry("rbp", "target", id, ok, promo_event.environment, promo_event.created_millis) >>
    ELSE << Entry("rbp", "target", id, ok, promo_event.environment, promo_event.created_millis),
            Entry("align", "target", id, updOk, promo_event.environment,
                  UpdatedMillis(promo_event.created_millis)) >>

\* the target's trail after that round
ReplayEffect(trail, promo_event, ok, updOk) ==
    IF ~Truthy(promo_event.environment) \/ ~ok THEN trail
    ELSE IF TruthyMillis(promo_event.created_millis) /\ updOk
    THEN Realign(Promote(trail, promo_event.environment,
                         promo_event.included_repository_keys,
                         promo_event.excluded_repository_keys),
                 UpdatedMillis(promo_event.created_millis))
    ELSE Promote(trail, promo_event.environment,
                 promo_event.included_repository_keys,
                 promo_event.excluded_repository_keys)

\* one round of the replay loop: the environment check, `jf rbp`, and the
\* timestamp request after a promotion that succeeded
ReplayOne ==
    /\ pc = "replay"
    /\ pi <= Len(promotions_to_sync)
    /\ \E oks \in [1..2 -> BOOLEAN] :
         LET id == <<bi, vi>>
             promo_event == promotions_to_sync[pi]
             requests == ReplayRequests(id, promo_event, oks[1], oks[2])
             failures == Cardinality({ i \in DOMAIN requests : ~requests[i].ok })
         IN /\ faults + failures <= MaxFaults
            \* an outcome belongs to a request that is made
            /\ Len(requests) < 2 => oks[2]
            /\ Len(requests) < 1 => oks[1]
            /\ faults' = faults + failures
            /\ log' = log \o requests
            /\ target' = [target EXCEPT ![id] = ReplayEffect(target[id], promo_event, oks[1], oks[2])]
    /\ pi' = pi + 1
    /\ UNCHANGED <<source, environment_filter, project_filter, pc, bi, vi,
                   promotions_to_sync, exit_status, pass, selected, reconciled,
                   fetched, finished, prevLog, prevFinished>>
    /\ UNCHANGED <<eventVars, parseVars>>

\* the replay loop is exhausted: on to the next version
ReplayDone ==
    /\ pc = "replay"
    /\ pi > Len(promotions_to_sync)
    /\ pc' = "version"
    /\ vi' = vi + 1
    /\ finished' = finished \cup {<<bi, vi>>}
    /\ UNCHANGED <<source, target, environment_filter, project_filter, bi,
                   promotions_to_sync, pi, exit_status, log, pass, selected,
                   reconciled, fetched, prevLog, prevFinished, faults>>
    /\ UNCHANGED <<eventVars, parseVars>>

\* no `jf rbp` of the run failed for the identity
NoFailedPromotion(lg, id) ==
    \A i \in DOMAIN lg : ~(lg[i].op = "rbp" /\ lg[i].id = id /\ ~lg[i].ok)

\* the script is run a second time, with the same arguments, on the same systems
Restart ==
    /\ pc = "done"
    /\ pass = 1
    /\ pass' = pass + 1
    /\ prevLog' = log
    /\ prevFinished' = finished
    /\ pc' = "configure"
    /\ bi' = 1
    /\ vi' = 1
    /\ promotions_to_sync' = << >>
    /\ pi' = 1
    /\ exit_status' = 0
    /\ log' = << >>
    /\ selected' = [id \in Ids |-> << >>]
    /\ reconciled' = {}
    /\ fetched' = NothingFetched
    /\ finished' = {}
    /\ UNCHANGED <<source, target, environment_filter, project_filter, faults>>
    /\ UNCHANGED <<eventVars, parseVars>>

Next ==
    \/ Configure
    \/ GetNames
    \/ NextBundle
    \/ Finish
    \/ ProcessVersion
    \/ VersionsDone
    \/ ReplayOne
    \/ ReplayDone

\* two runs, one after the other
NextTwice == Next \/ Restart

(***************************************************************************)
(* Sweep mode, src/sync_rb_promotions.py: the script at the root of src,   *)
(* on the variables of the sweep.                                          *)
(***************************************************************************)
\* the test of the loop over target_promotions: the environments are equal
\* and the repository lists are equal as tuples
SameAsTarget(source_promo, target_promo) ==
    /\ source_promo.environment = target_promo.environment
    /\ source_promo.included_repository_keys = target_promo.included_repository_keys
    /\ source_promo.excluded_repository_keys = target_promo.excluded_repository_keys

\* is_present_in_target
IsPresentInTarget(source_promo, target_promotions) ==
    \E i \in DOMAIN target_promotions : SameAsTarget(source_promo, target_promotions[i])

\* `if environment_filter and source_env != environment_filter`
EnvironmentFilteredOut(source_env, filter) == filter # "" /\ source_env # filter

\* promotions_to_sync_for_version: the source records, in the order of the
\* source history, that have an environment, pass the filter and are not
\* present in the target
MissingPromotions(source_promotions, target_promotions, filter) ==
    LET Missing(source_promo) ==
            /\ source_promo.environment # NoneVal
            /\ ~EnvironmentFilteredOut(source_promo.environment, filter)
            /\ ~IsPresentInTarget(source_promo, target_promotions)
    IN SelectSeq(source_promotions, Missing)

\* `if original_promotion_millis is not None and original_promotion_millis != "N/A"`
HasMillis(ms) == ms # NoMillis /\ ms # NotAvailable

\* `if not all([current_release_bundle_name, current_input_repository_key])`
Malformed(rb_name_info) ==
    ~Truthy(rb_name_info.release_bundle_name) \/ ~Truthy(rb_name_info.repository_key)

\* the script takes no project filter, and no `jf c` configuration
InitRootSweep ==
    /\ \E st \in StorePairs(MaxRootEvents) : source = st[1] /\ target = st[2]
    /\ environment_filter \in {"", "DEV"}
    /\ project_filter = NoneVal
    /\ pc = "names"
    /\ bi = 1
    /\ vi = 1
    /\ promotions_to_sync = << >>
    /\ pi = 1
    /\ exit_status = 0
    /\ log = << >>
    /\ pass = 1
    /\ selected = [id \in Ids |-> << >>]
    /\ reconciled = {}
    /\ fetched = NothingFetched
    /\ finished = {}
    /\ prevLog = << >>
    /\ prevFinished = {}
    /\ faults = 0

\* get_release_bundle_names_with_project_keys; no answer ends the run with 0
R_GetNames ==
    /\ pc = "names"
    /\ \E oks \in Outcomes(1) :
         /\ faults' = faults + Failed(oks)
         /\ log' = Append(log, Entry("names", "source", NoId, oks[1], NoneVal, NoMillis))
         /\ IF oks[1] /\ Bundles # << >>
            THEN /\ pc' = "bundle"
                 /\ bi' = 1
                 /\ exit_status' = exit_status
            ELSE /\ pc' = "done"
                 /\ bi' = bi
                 /\ exit_status' = 0
    /\ UNCHANGED <<source, target, environment_filter, project_filter, vi,
                   promotions_to_sync, pi, pass, selected, reconciled, fetched,
                   finished, prevLog, prevFinished>>
    /\ UNCHANGED <<eventVars, parseVars>>

\* one round of the loop over the bundle names: the check of the entry and
\* get_release_bundle_versions
R_NextBundle ==
    /\ pc = "bundle"
    /\ bi <= Len(Bundles)
    /\ IF Malformed(Bundles[bi])
       THEN /\ bi' = bi + 1
            /\ UNCHANGED <<pc, vi, log, faults>>
       ELSE \E oks \in Outcomes(1) :
              /\ faults' = faults + Failed(oks)
              /\ log' = Append(log, Entry("versions", "source", <<bi, 0>>, oks[1], NoneVal, NoMillis))
              /\ IF oks[1] /\ VersionsOf[bi] # << >>
                 THEN /\ pc' = "version"
                      /\ vi' = 1
                      /\ bi' = bi
                 ELSE /\ bi' = bi + 1
                      /\ UNCHANGED <<pc, vi>>
    /\ UNCHANGED <<source, target, environment_filter, project_filter,
                   promotions_to_sync, pi, exit_status, pass, selected,
                   reconciled, fetched, finished, prevLog, prevFinished>>
    /\ UNCHANGED <<eventVars, parseVars>>

\* main() returns after the last bundle name: the process ends with status 0
R_Finish ==
    /\ pc = "bundle"
    /\ bi > Len(Bundles)
    /\ pc' = "done"
    /\ exit_status' = 0
    /\ UNCHANGED <<source, target, environment_filter, project_filter, bi, vi,
                   promotions_to_sync, pi, log, pass, selected, reconciled,
                   fetched, finished, prevLog, prevFinished, faults>>
    /\ UNCHANGED <<eventVars, parseVars>>

\* the loop over the versions of one bundle name is exhausted
R_VersionsDone ==
    /\ pc = "version"
    /\ vi > Len(VersionsOf[bi])
    /\ pc' = "bundle"
    /\ bi' = bi + 1
    /\ UNCHANGED <<source, target, environment_filter, project_filter, vi,
                   promotions_to_sync, pi, exit_status, log, pass, selected,
                   reconciled, fetched, finished, prevLog, prevFinished, faults>>
    /\ UNCHANGED <<eventVars, parseVars>>

\* one round of the loop over the versions, up to the replay loop: the two
\* history requests, the second only after an answer to the first, and
\* promotions_to_sync_for_version
R_ProcessVersion ==
    /\ pc = "version"
    /\ vi <= Len(VersionsOf[bi])
    /\ \E oks \in Outcomes(2) :
         LET id == <<bi, vi>>
             sourceRaises == oks[1] /\ HistoryRaises(AuditResponse(source[id]))
             targetRaises == oks[2] /\ HistoryRaises(AuditResponse(target[id]))
             source_promotions == CompletedPromotions(AuditResponse(source[id]))
             target_promotions == CompletedPromotions(AuditResponse(target[id]))
             pts == MissingPromotions(source_promotions, target_promotions, environment_filter)
         IN /\ faults' = faults + Failed(oks)
            /\ IF ~oks[1] \/ sourceRaises
               THEN \* the target is not asked
                    /\ oks[2]
                    /\ log' = Append(log, Entry("history", "source", id, oks[1], NoneVal, NoMillis))
                    /\ IF sourceRaises
                       THEN /\ pc' = "done"
                            /\ exit_status' = 1
                            /\ vi' = vi
                       ELSE /\ vi' = vi + 1
                            /\ UNCHANGED <<pc, exit_status>>
                    /\ UNCHANGED <<promotions_to_sync, pi, selected, reconciled,
                                   fetched, finished>>
               ELSE /\ log' = log \o << Entry("history", "source", id, oks[1], NoneVal, NoMillis),
                                        Entry("history", "target", id, oks[2], NoneVal, NoMillis) >>
                    /\ IF targetRaises
                       THEN /\ pc' = "done"
                            /\ exit_status' = 1
                            /\ UNCHANGED <<vi, promotions_to_sync, pi, selected, reconciled,
                                           fetched, finished>>
                       ELSE IF ~oks[2]
                       THEN /\ vi' = vi + 1
                            /\ UNCHANGED <<pc, promotions_to_sync, pi, selected, reconciled,
                                           fetched, finished, exit_status>>
                       ELSE /\ selected' = [selected EXCEPT ![id] = pts]
                            /\ reconciled' = reconciled \cup {id}
                            /\ fetched' = [fetched EXCEPT ![id] =
                                             [source_promotions |-> source_promotions,
                                              target_promotions |-> target_promotions]]
                            /\ exit_status' = exit_status
                            /\ IF pts = << >>
                               THEN /\ vi' = vi + 1
                                    /\ finished' = finished \cup {id}
                                    /\ UNCHANGED <<pc, promotions_to_sync, pi>>
                               ELSE /\ pc' = "replay"
                                    /\ promotions_to_sync' = pts
                                    /\ pi' = 1
                                    /\ UNCHANGED <<vi, finished>>
    /\ UNCHANGED <<source, target, environment_filter, project_filter, bi,
                   pass, prevLog, prevFinished>>
    /\ UNCHANGED <<eventVars, parseVars>>

\* the requests one round of the replay loop makes for promo_event, given the
\* outcome of `jf rbp` and of the timestamp request
R_ReplayRequests(id, promo_event, ok, updOk) ==
    IF promo_event.environment = NoneVal THEN << >>
    ELSE IF ~ok \/ ~HasMillis(promo_event.created_millis)
    THEN << Entry("rbp", "target", id, ok, promo_event.environment, promo_event.created_millis) >>
    ELSE << Entry("rbp", "target", id, ok, promo_event.environment, promo_event.created_millis),
            Entry("align", "target", id, updOk, promo_event.environment,
                  UpdatedMillis(promo_event.created_millis)) >>

\* the target's trail after that round
R_ReplayEffect(trail, promo_event, ok, updOk) ==
    IF promo_event.environment = NoneVal \/ ~ok THEN trail
    ELSE IF HasMillis(promo_event.created_millis) /\ updOk
    THEN Realign(Promote(trail, promo_event.environment,
                         promo_event.included_repository_keys,
                         promo_event.excluded_repository_keys),
                 UpdatedMillis(promo_event.created_millis))
    ELSE Promote(trail, promo_event.environment,
                 promo_event.included_repository_keys,
                 promo_event.excluded_repository_keys)

\* one round of the replay loop: the environment check, `jf rbp`, and the
\* timestamp request after a promotion that succeeded
R_ReplayOne ==
    /\ pc = "replay"
    /\ pi <= Len(promotions_to_sync)
    /\ \E oks \in [1..2 -> BOOLEAN] :
         LET id == <<bi, vi>>
             promo_event == promotions_to_sync[pi]
             requests == R_ReplayRequests(id, promo_event, oks[1], oks[2])
             failures == Cardinality({ i \in DOMAIN requests : ~requests[i].ok })
         IN /\ faults + failures <= MaxFaults
            \* an outcome belongs to a request that is made
            /\ Len(requests) < 2 => oks[2]
            /\ Len(requests) < 1 => oks[1]
            /\ faults' = faults + failures
            /\ log' = log \o requests
            /\ target' = [target EXCEPT ![id] = R_ReplayEffect(target[id], promo_event, oks[1], oks[2])]
    /\ pi' = pi + 1
    /\ UNCHANGED <<source, environment_filter, project_filter, pc, bi, vi,
                   promotions_to_sync, exit_status, pass, selected, reconciled,
                   fetched, finished, prevLog, prevFinished>>
    /\ UNCHANGED <<eventVars, parseVars>>

\* the replay loop is exhausted: on to the next version
R_ReplayDone ==
    /\ pc = "replay"
    /\ pi > Len(promotions_to_sync)
    /\ pc' = "version"
    /\ vi' = vi + 1
    /\ finished' = finished \cup {<<bi, vi>>}
    /\ UNCHANGED <<source, target, environment_filter, project_filter, bi,
                   promotions_to_sync, pi, exit_status, log, pass, selected,
                   reconciled, fetched, prevLog, prevFinished, faults>>
    /\ UNCHANGED <<eventVars, parseVars>>

NextRoot ==
    \/ R_GetNames
    \/ R_NextBundle
    \/ R_Finish
    \/ R_ProcessVersion
    \/ R_VersionsDone
    \/ R_ReplayOne
    \/ R_ReplayDone

(***************************************************************************)
(* Event-triggered mode: promote_release_bundle.py, started by a promotion *)
(* event.  Systems A and B each start the script toward the other system;  *)
(* both are configured with PRIMARY_SOURCE_URL = A.                        *)
(***************************************************************************)
Systems == {"A", "B"}
PrimarySourceUrl == "A"
Other(sys) == IF sys = "A" THEN "B" ELSE "A"

\* the events a trails holds before the first promotion of the model
EvtTemplates == {TDev, TStgBA, TFed, TCreated}
\* the promotions a user makes
UserTemplates == {TDev, TStg}

\* the exit statuses of a `jf rbp` that failed
FailureCodes == {1, 2}

NoEnvVars ==
    [complete |-> FALSE, JPD_ORIGIN |-> NoneVal, SOURCE_URL |-> NoneVal,
     TARGET_URL |-> NoneVal, ENVIRONMENT |-> NoneVal]

NoEvent == Stamp(TCreated, NoMillis)

InitEventIdle ==
    /\ trails = [sys \in Systems |-> << >>]
    /\ events = << >>
    /\ e_pc = "idle"
    /\ env_vars = NoEnvVars
    /\ source_promotion_event = NoEvent
    /\ e_exit = 0
    /\ e_log = << >>
    /\ replays = [sys \in Systems |-> 0]
    /\ userPromotions = [sys \in Systems |-> 0]

InitEvent ==
    /\ trails \in { [sys \in Systems |-> StampAll(f[sys])] :
                      f \in { g \in [Systems -> SeqsUpTo(EvtTemplates, MaxPriorEvents)] :
                                Len(g["A"]) + Len(g["B"]) <= MaxPriorEvents } }
    /\ events = << >>
    /\ e_pc = "idle"
    /\ env_vars = NoEnvVars
    /\ source_promotion_event = NoEvent
    /\ e_exit = 0
    /\ e_log = << >>
    /\ replays = [sys \in Systems |-> 0]
    /\ userPromotions = [sys \in Systems |-> 0]
    /\ InitSweepIdle
    /\ InitParseIdle

\* a promotion on a system raises the event that starts the script there
PromotionEvent(sys, env) == [origin |-> sys, environment |-> env]

\* a user promotes the bundle version on a system
UserPromote ==
    /\ userPromotions["A"] + userPromotions["B"] < MaxUserPromotions
    /\ \E sys \in Systems, t \in UserTemplates :
         /\ trails' = [trails EXCEPT ![sys] = Append(@, Stamp(t, ServerNow(@)))]
         /\ events' = Append(events, PromotionEvent(sys, t.environment))
         /\ userPromotions' = [userPromotions EXCEPT ![sys] = @ + 1]
    /\ UNCHANGED <<e_pc, env_vars, source_promotion_event, e_exit, e_log, replays>>
    /\ UNCHANGED <<sweepVars, parseVars>>

\* the federation mirrors onto the primary source a promotion made
\* elsewhere: the audit trail records it with a FED- reference, and the
\* event that starts the script is raised there
MirroredPromotion ==
    /\ userPromotions["A"] + userPromotions["B"] < MaxUserPromotions
    /\ LET sys == PrimarySourceUrl
       IN /\ trails' = [trails EXCEPT ![sys] = Append(@, Stamp(TFed, ServerNow(@)))]
          /\ events' = Append(events, PromotionEvent(sys, TFed.environment))
          /\ userPromotions' = [userPromotions EXCEPT ![sys] = @ + 1]
    /\ UNCHANGED <<e_pc, env_vars, source_promotion_event, e_exit, e_log, replays>>
    /\ UNCHANGED <<sweepVars, parseVars>>

\* a variant without the origin check
OriginNeverDiffers(jpd_origin, primary_source_url) == FALSE

\* a variant with the origin check inverted
OriginDiffersInverted(jpd_origin, primary_source_url) == jpd_origin = primary_source_url

\* `if jpd_origin != primary_source_url`
OriginDiffers(jpd_origin, primary_source_url) == jpd_origin # primary_source_url

\* the start of main(): the environment variables, the check that all are
\* set, and the origin check
StartRun ==
    /\ e_pc = "idle"
    /\ events # << >>
    /\ events' = Tail(events)
    /\ e_log' = << >>
    /\ source_promotion_event' = NoEvent
    /\ \E complete \in BOOLEAN :
         LET ev == Head(events)
         IN /\ env_vars' = [complete |-> complete, JPD_ORIGIN |-> ev.origin,
                            SOURCE_URL |-> ev.origin, TARGET_URL |-> Other(ev.origin),
                            ENVIRONMENT |-> ev.environment]
            /\ IF ~complete
               THEN /\ e_pc' = "idle"
                    /\ e_exit' = 1
               ELSE IF OriginDiffers(ev.origin, PrimarySourceUrl)
               THEN /\ e_pc' = "idle"
                    /\ e_exit' = 0
               ELSE /\ e_pc' = "names"
                    /\ e_exit' = e_exit
    /\ UNCHANGED <<trails, replays, userPromotions>>
    /\ UNCHANGED <<sweepVars, parseVars>>

\* get_release_bundle_names_with_project_keys: without an answer the
\* project key is 'default' and the run goes on
E_Names ==
    /\ e_pc = "names"
    /\ \E ok \in BOOLEAN :
         e_log' = Append(e_log, Entry("names", env_vars.SOURCE_URL, NoId, ok, NoneVal, NoMillis))
    /\ e_pc' = "source_audit"
    /\ UNCHANGED <<trails, events, env_vars, source_promotion_event, e_exit,
                   replays, userPromotions>>
    /\ UNCHANGED <<sweepVars, parseVars>>

\* the test of the two audit loops of main()
IsOwnPromotion(e) ==
    e.subject_type = "PROMOTION" /\ ~StartsWith(e.subject_reference, FedPrefix)

\* a variant that takes the mirror of a promotion for a promotion
FindSourceEventMirrored(audits, environment) ==
    LET hits == { i \in DOMAIN audits :
                    audits[i].subject_type = "PROMOTION" /\ audits[i].environment = environment }
    IN IF hits = {} THEN NoEvent
       ELSE audits[CHOOSE i \in hits : \A j \in hits : i <= j]

\* the first event of the audits that is a promotion of this system to the
\* environment, or NoEvent
FindSourceEvent(audits, environment) ==
    LET hits == { i \in DOMAIN audits :
                    IsOwnPromotion(audits[i]) /\ audits[i].environment = environment }
    IN IF hits = {} THEN NoEvent
       ELSE audits[CHOOSE i \in hits : \A j \in hits : i <= j]

\* the first event of the audits that is a promotion of this system, or NoEvent
LatestPromotion(audits) ==
    LET hits == { i \in DOMAIN audits : IsOwnPromotion(audits[i]) }
    IN IF hits = {} THEN NoEvent
       ELSE audits[CHOOSE i \in hits : \A j \in hits : i <= j]

\* get_release_bundle_details on the source and the search for the event
E_SourceAudit ==
    /\ e_pc = "source_audit"
    /\ \E ok \in BOOLEAN :
         LET found == IF ok
                      THEN FindSourceEvent(AuditResponse(trails[env_vars.SOURCE_URL]),
                                           env_vars.ENVIRONMENT)
                      ELSE NoEvent
         IN /\ e_log' = Append(e_log, Entry("audit", env_vars.SOURCE_URL, NoId, ok,
                                            env_vars.ENVIRONMENT, NoMillis))
            /\ source_promotion_event' = found
            /\ IF found = NoEvent
               THEN /\ e_pc' = "idle"
                    /\ e_exit' = 1
               ELSE /\ e_pc' = "target_audit"
                    /\ e_exit' = e_exit
    /\ UNCHANGED <<trails, events, env_vars, replays, userPromotions>>
    /\ UNCHANGED <<sweepVars, parseVars>>

\* the latest promotion of the target is to the environment, with the
\* repository sets of the source event
IdenticalOnTarget(latest, event, environment) ==
    /\ latest # NoEvent
    /\ latest.environment = environment
    /\ ParseReposToSet(event.included_repository_keys)
         = ParseReposToSet(latest.included_repository_keys)
    /\ ParseReposToSet(event.excluded_repository_keys)
         = ParseReposToSet(latest.excluded_repository_keys)

\* get_release_bundle_details on the target and the check of its latest
\* promotion; a request that failed leaves no latest promotion
E_TargetAudit ==
    /\ e_pc = "target_audit"
    /\ \E ok \in BOOLEAN :
         LET latest == IF ok THEN LatestPromotion(AuditResponse(trails[env_vars.TARGET_URL]))
                       ELSE NoEvent
         IN /\ e_log' = Append(e_log, Entry("audit", env_vars.TARGET_URL, NoId, ok,
                                            env_vars.ENVIRONMENT, NoMillis))
            /\ IF IdenticalOnTarget(latest, source_promotion_event, env_vars.ENVIRONMENT)
               THEN /\ e_pc' = "idle"
                    /\ e_exit' = 0
               ELSE /\ e_pc' = "promote"
                    /\ e_exit' = e_exit
    /\ UNCHANGED <<trails, events, env_vars, source_promotion_event, replays,
                   userPromotions>>
    /\ UNCHANGED <<sweepVars, parseVars>>

\* a variant in which a promotion that failed does not end the run
E_PromoteGoesOn ==
    /\ e_pc = "promote"
    /\ \E ok \in BOOLEAN :
         LET tgt == env_vars.TARGET_URL
         IN /\ e_log' = Append(e_log, Entry("rbp", tgt, NoId, ok, env_vars.ENVIRONMENT,
                                            source_promotion_event.promotion_created_millis))
            /\ IF ok
               THEN /\ trails' = [trails EXCEPT ![tgt] =
                                   Promote(@, env_vars.ENVIRONMENT,
                                           source_promotion_event.included_repository_keys,
                                           source_promotion_event.excluded_repository_keys)]
                    /\ events' = Append(events, PromotionEvent(tgt, env_vars.ENVIRONMENT))
                    /\ replays' = [replays EXCEPT ![tgt] = @ + 1]
               ELSE UNCHANGED <<trails, events, replays>>
            /\ e_pc' = "align"
            /\ e_exit' = e_exit
    /\ UNCHANGED <<env_vars, source_promotion_event, userPromotions>>
    /\ UNCHANGED <<sweepVars, parseVars>>

\* `jf rbp`: a failure ends the run with the return code of the command; a
\* success is a promotion on the target, which raises an event there
E_Promote ==
    /\ e_pc = "promote"
    /\ \E ok \in BOOLEAN :
         LET tgt == env_vars.TARGET_URL
         IN /\ e_log' = Append(e_log, Entry("rbp", tgt, NoId, ok, env_vars.ENVIRONMENT,
                                            source_promotion_event.promotion_created_millis))
            /\ IF ok
               THEN /\ trails' = [trails EXCEPT ![tgt] =
                                   Promote(@, env_vars.ENVIRONMENT,
                                           source_promotion_event.included_repository_keys,
                                           source_promotion_event.excluded_repository_keys)]
                    /\ events' = Append(events, PromotionEvent(tgt, env_vars.ENVIRONMENT))
                    /\ replays' = [replays EXCEPT ![tgt] = @ + 1]
                    /\ e_pc' = "align"
                    /\ e_exit' = e_exit
               ELSE /\ e_pc' = "idle"
                    /\ e_exit' \in FailureCodes
                    /\ UNCHANGED <<trails, events, replays>>
    /\ UNCHANGED <<env_vars, source_promotion_event, userPromotions>>
    /\ UNCHANGED <<sweepVars, parseVars>>

\* update_release_bundle_milliseconds: without an answer the run ends with 1
E_Align ==
    /\ e_pc = "align"
    /\ \E ok \in BOOLEAN :
         LET tgt == env_vars.TARGET_URL
             ms == UpdatedMillis(source_promotion_event.promotion_created_millis)
         IN /\ e_log' = Append(e_log, Entry("align", tgt, NoId, ok, env_vars.ENVIRONMENT, ms))
            /\ trails' = [trails EXCEPT ![tgt] = IF ok THEN Realign(@, ms) ELSE @]
            /\ e_exit' = IF ok THEN 0 ELSE 1
    /\ e_pc' = "idle"
    /\ UNCHANGED <<events, env_vars, source_promotion_event, replays,
                   userPromotions>>
    /\ UNCHANGED <<sweepVars, parseVars>>

NextEvent ==
    \/ UserPromote
    \/ MirroredPromotion
    \/ StartRun
    \/ E_Names
    \/ E_SourceAudit
    \/ E_TargetAudit
    \/ E_Promote
    \/ E_Align


(***************************************************************************)
(* parse_repos_to_set, applied to a repository filter and to its own       *)
(* result.                                                                 *)
(***************************************************************************)
\* more repository-filter strings: '', ' ', 'a,,b' and 'a, '
StrEmpty == << >>
StrBlank == <<" ">>
StrAGapB == <<"a", ",", ",", "b">>
StrATrail == <<"a", ",", " ">>

\* the elements of a repository filter
RepoStrings == {StrA, StrB, StrAB, StrASpB, StrEmpty, StrBlank, StrAGapB, StrATrail}

\* the arguments: None, and the lists of at most MaxListLen elements
RepoArgs ==
    { [given |-> FALSE, list |-> << >>] }
      \cup { [given |-> TRUE, list |-> l] : l \in SeqsUpTo(RepoStrings, MaxListLen) }

\* parse_repos_to_set(repo_list) for an argument that may be None
ParseReposArg(arg) == IF ~arg.given THEN {} ELSE ParseReposToSet(arg.list)

\* parse_repos_to_set(repo_list) for an argument that is a frozenset
ParseReposOfSet(repo_set) ==
    IF repo_set = {} THEN {}
    ELSE UNION { { Strip(seg) : seg \in { Split(item)[j] : j \in DOMAIN Split(item) } }
                 : item \in repo_set }

InitParse ==
    /\ repo_list \in RepoArgs
    /\ parsed_set = {}
    /\ reparsed_set = {}
    /\ p_pc = "input"
    /\ InitSweepIdle
    /\ InitEventIdle

\* parse_repos_to_set(x)
P_Parse ==
    /\ p_pc = "input"
    /\ parsed_set' = ParseReposArg(repo_list)
    /\ p_pc' = "parsed"
    /\ UNCHANGED <<repo_list, reparsed_set>>
    /\ UNCHANGED <<sweepVars, eventVars>>

\* parse_repos_to_set(parse_repos_to_set(x))
P_Reparse ==
    /\ p_pc = "parsed"
    /\ reparsed_set' = ParseReposOfSet(parsed_set)
    /\ p_pc' = "reparsed"
    /\ UNCHANGED <<repo_list, parsed_set>>
    /\ UNCHANGED <<sweepVars, eventVars>>

NextParse ==
    \/ P_Parse
    \/ P_Reparse

SpecParse == InitParse /\ [][NextParse]_vars

\* one run of the sweep script
Init == InitSweep /\ InitEventIdle /\ InitParseIdle

Spec == Init /\ [][Next]_vars

\* the script run twice, without filters
InitTwice ==
    /\ \E st \in StorePairs(MaxEventsTwice) : source = st[1] /\ target = st[2]
    /\ environment_filter = ""
    /\ project_filter = NoneVal
    /\ InitRun
    /\ InitEventIdle
    /\ InitParseIdle

\* one run of the sweep script as a sequential process: a step that can be
\* taken is taken, every call returning
SpecFair == InitTwice /\ [][Next]_vars /\ WF_vars(Next)

\* the values of --project-filter of the runs with a project filter: none,
\* the key of b1, the key a bundle without a key is given, a key of no bundle
ProjectFilters == {NoneVal, "p1", "default", "p2"}

InitFilter ==
    /\ \E st \in StorePairs(MaxEventsTwice) : source = st[1] /\ target = st[2]
    /\ environment_filter = ""
    /\ project_filter \in ProjectFilters
    /\ InitRun
    /\ InitEventIdle
    /\ InitParseIdle

SpecFilter == InitFilter /\ [][Next]_vars

InitAudit == InitAuditSweep /\ InitEventIdle /\ InitParseIdle

SpecTwice == InitTwice /\ [][NextTwice]_vars

\* one run of src/sync_rb_promotions.py
InitRoot == InitRootSweep /\ InitEventIdle /\ InitParseIdle

SpecRoot == InitRoot /\ [][NextRoot]_vars

\* the script run once over histories with federated mirrors and with
\* timestamps that are absent or not numbers
SpecAudit == InitAudit /\ [][Next]_vars

SpecEvent == InitEvent /\ [][NextEvent]_vars

(***************************************************************************)
(* Properties of the sweep-mode sync.                                      *)
(***************************************************************************)
\* the histories of an identity as a fetch returns them now
SourceNow(id) == CompletedPromotions(AuditResponse(source[id]))
TargetNow(id) == CompletedPromotions(AuditResponse(target[id]))

SignaturesOf(promos) == { GetPromoSignature(promos[i]) : i \in DOMAIN promos }

\* the requests of one kind a log holds for an identity
Requests(lg, op, id) == { i \in DOMAIN lg : lg[i].op = op /\ lg[i].id = id }

Max(a, b) == IF a >= b THEN a ELSE b

\* C1 as stated: after a pass in which the fetches and every promotion of an
\* identity succeeded, the target holds every signature of the source at
\* least as often as the source does.
C1_Convergence_AsStated ==
    pc = "done" =>
      \A id \in finished :
        NoFailedPromotion(log, id) =>
            \A sig \in SignaturesOf(SourceNow(id)) :
                CountOf(TargetNow(id), sig) >= CountOf(SourceNow(id), sig)

\* C1 amended: after a pass in which the fetches and every promotion of an
\* identity succeeded, the target holds every signature of the source that
\* has a non-empty environment at least as often as the source does.
C1_Convergence ==
    pc = "done" =>
      \A id \in finished :
        NoFailedPromotion(log, id) =>
            \A sig \in SignaturesOf(SourceNow(id)) :
                Truthy(sig[1]) => CountOf(TargetNow(id), sig) >= CountOf(SourceNow(id), sig)

\* an identity was behind, and its replay ended with every promotion made
C1_Witness ==
    pc = "done" /\ \E id \in finished :
        /\ NoFailedPromotion(log, id)
        /\ Requests(log, "rbp", id) # {}
        /\ \E sig \in SignaturesOf(SourceNow(id)) :
             /\ Truthy(sig[1])
             /\ CountOf(fetched[id].target_promotions, sig) < CountOf(SourceNow(id), sig)

\* the first run went through every identity, and every promotion it made
\* succeeded
FirstRunAllPromoted ==
    /\ prevFinished = Ids
    /\ \A i \in DOMAIN prevLog : prevLog[i].op = "rbp" => prevLog[i].ok

\* C2 as stated: when a first pass completed and every promotion it made
\* succeeded, a second pass selects no record for replay, for any identity.
C2_Idempotence_AsStated ==
    (pass = 2 /\ FirstRunAllPromoted) =>
        \A id \in reconciled : selected[id] = << >>

\* C2 amended: for an identity whose histories the first pass fetched and
\* whose promotions all succeeded, the second pass selects no record that
\* has a non-empty environment.
C2_Idempotence ==
    pass = 2 =>
        \A id \in reconciled \cap prevFinished :
            NoFailedPromotion(prevLog, id) =>
                \A i \in DOMAIN selected[id] : ~Truthy(selected[id][i].environment)

\* the second pass reconciles an identity the first pass promoted for
C2_Witness ==
    /\ pass = 2
    /\ \E id \in reconciled \cap prevFinished :
         /\ NoFailedPromotion(prevLog, id)
         /\ Requests(prevLog, "rbp", id) # {}

\* the step just taken fetched both histories of the identity and computed
\* its replay list; selected and fetched keep these values to the end of the
\* run
JustReconciled(id) ==
    /\ id \in reconciled
    /\ \/ pc = "replay" /\ pi = 1 /\ id = <<bi, vi>>
       \/ pc = "version" /\ id = <<bi, vi - 1>> /\ selected[id] = << >>

\* C3: the replay list is in ascending order of created_millis.
C3_ReplayOrder ==
    \A id \in reconciled :
        \A i \in DOMAIN selected[id], j \in DOMAIN selected[id] :
            i < j => selected[id][i].created_millis <= selected[id][j].created_millis

\* the number of entries of a replay list with a signature
Selected(promos, sig) == CountOf(promos, sig)

RECURSIVE SumOver(_, _)
SumOver(S, f) ==
    IF S = {} THEN 0
    ELSE LET x == CHOOSE y \in S : TRUE IN f[x] + SumOver(S \ {x}, f)

\* max(0, sourceCount[sig] - targetCount[sig]) at the time of the fetch
Deficit(id, sig) ==
    Max(0, CountOf(fetched[id].source_promotions, sig)
           - CountOf(fetched[id].target_promotions, sig))

\* C4: for every signature of the source the replay list has exactly the
\* deficit of entries, it has no entry of another signature, and its length
\* is the sum of the deficits.
C4_DeficitSize ==
    \A id \in Ids : JustReconciled(id) =>
        LET sigs == SignaturesOf(fetched[id].source_promotions)
        IN /\ \A sig \in sigs : Selected(selected[id], sig) = Deficit(id, sig)
           /\ SignaturesOf(selected[id]) \subseteq sigs
           /\ Len(selected[id]) = SumOver(sigs, [sig \in sigs |-> Deficit(id, sig)])

\* a signature is behind by two and another by one
C4_Witness ==
    \E id \in reconciled :
        \E s1 \in SignaturesOf(fetched[id].source_promotions),
           s2 \in SignaturesOf(fetched[id].source_promotions) :
            /\ Deficit(id, s1) = 2
            /\ Deficit(id, s2) = 1
            /\ Len(selected[id]) = 3

\* C5: with an environment filter, every promotion of the run is to the
\* environment of the filter.
C5_EnvironmentFilter ==
    environment_filter # "" =>
        \A i \in DOMAIN log : log[i].op = "rbp" => log[i].env = environment_filter

\* a promotion of the identity failed, and a later request of the run is a
\* promotion or a timestamp request for the same identity
RequestAfterFailure(lg, id) ==
    \E i \in DOMAIN lg, j \in DOMAIN lg :
        /\ i < j
        /\ lg[i].op = "rbp" /\ lg[i].id = id /\ ~lg[i].ok
        /\ lg[j].op \in {"rbp", "align"} /\ lg[j].id = id

\* the bundle names the run has left behind all had their versions asked for,
\* unless the project filter excludes them
BundlesVisited ==
    pc \in {"bundle", "version", "replay"} =>
        \A b \in 1..(bi - 1) :
            ~FilteredOut(Bundles[b], project_filter) => Requests(log, "versions", <<b, 0>>) # {}

C9_ExitStatus ==
    (pc = "done" /\ \E i \in DOMAIN log : log[i].op = "rbp" /\ ~log[i].ok) =>
        exit_status # 0

\* a history request of the identity failed
HistoryFailed(lg, id) ==
    \E i \in Requests(lg, "history", id) : ~lg[i].ok

\* C10: at the end of a run, an identity with a failed history request got
\* no promotion and no timestamp request, and the run went on (the log and
\* the set of reconciled identities only grow in a run, so what holds of
\* them at the end held all along); an identity whose requests
\* succeeded is reconciled also when a history is empty, and with an empty
\* target history every signature of the source is selected as often as the
\* source has it.
C10_FetchFailure ==
    /\ pc = "done" =>
         \A id \in Ids :
             /\ HistoryFailed(log, id) =>
                  /\ Requests(log, "rbp", id) = {}
                  /\ Requests(log, "align", id) = {}
                  /\ id \notin reconciled
             /\ (Requests(log, "history", id) # {} /\ ~HistoryFailed(log, id)) =>
                  id \in reconciled
    /\ \A id \in Ids :
         (JustReconciled(id) /\ fetched[id].target_promotions = << >>) =>
             \A sig \in SignaturesOf(fetched[id].source_promotions) :
                 Selected(selected[id], sig) = CountOf(fetched[id].source_promotions, sig)
    /\ BundlesVisited

\* the histories of the first identity could not be fetched although it was
\* behind, and the second identity, with an empty target, is being replayed
C10_Witness ==
    /\ HistoryFailed(log, <<1, 1>>)
    /\ SignaturesOf(SourceNow(<<1, 1>>)) # {}
    /\ TargetNow(<<1, 1>>) = << >>
    /\ <<2, 1>> \in reconciled
    /\ fetched[<<2, 1>>].target_promotions = << >>
    /\ selected[<<2, 1>>] # << >>

\* C21: at the end of a run, an identity whose target history had every
\* source signature at least as often as the source has an empty replay
\* list, no promotion and no timestamp request, the target history it had,
\* and is done with; and no record is selected for a signature whose
\* deficit is zero, so that none is promoted.
C21_AlreadyInSync ==
    pc = "done" =>
        \A id \in reconciled :
            /\ (\A sig \in SignaturesOf(fetched[id].source_promotions) : Deficit(id, sig) = 0) =>
                   /\ selected[id] = << >>
                   /\ Requests(log, "rbp", id) = {}
                   /\ Requests(log, "align", id) = {}
                   /\ TargetNow(id) = fetched[id].target_promotions
                   /\ id \in finished
            /\ \A i \in DOMAIN selected[id] :
                   Deficit(id, GetPromoSignature(selected[id][i])) > 0
            /\ Cardinality(Requests(log, "rbp", id)) <= Len(selected[id])

\* a run has ended in which an identity with promotions on the source was
\* in sync, and the other identity was promoted for
C21_Witness ==
    /\ pc = "done"
    /\ \E id \in reconciled, other \in reconciled :
         /\ fetched[id].source_promotions # << >>
         /\ selected[id] = << >>
         /\ Requests(log, "rbp", other) # {}

\* the promotions of a log for an identity, each by environment and
\* timestamp of its record
PromotedFor(lg, id) ==
    LET IsRbp(e) == e.op = "rbp" /\ e.id = id
        rbps == SelectSeq(lg, IsRbp)
    IN [i \in DOMAIN rbps |-> <<rbps[i].env, rbps[i].millis>>]

\* the records of a replay list that have an environment, each by
\* environment and timestamp
WithEnvironment(promos) ==
    LET HasEnv(e) == Truthy(e.environment)
        kept == SelectSeq(promos, HasEnv)
    IN [i \in DOMAIN kept |-> <<kept[i].environment, kept[i].created_millis>>]

\* C22: at the end of a run, no promotion and no timestamp request was for
\* a record without an environment; the promotions for an identity are
\* those of its selected records that have an environment, in their order,
\* whatever records without an environment are among them; and a run that
\* reconciled an identity went through every bundle name and ended with 0.
C22_MissingEnvironment ==
    pc = "done" =>
        /\ \A i \in DOMAIN log : log[i].op \in {"rbp", "align"} => Truthy(log[i].env)
        /\ \A id \in reconciled :
             /\ id \in finished
             /\ PromotedFor(log, id) = WithEnvironment(selected[id])
        /\ reconciled # {} =>
             /\ exit_status = 0
             /\ \A b \in DOMAIN Bundles :
                  ~FilteredOut(Bundles[b], project_filter) =>
                      Requests(log, "versions", <<b, 0>>) # {}

\* a run has ended in which the first selected record of an identity had no
\* environment and a later one was promoted
C22_Witness ==
    /\ pc = "done"
    /\ \E id \in reconciled :
         /\ Len(selected[id]) >= 2
         /\ ~Truthy(selected[id][1].environment)
         /\ Requests(log, "rbp", id) # {}

\* C23: after a promotion failed for a source record, the run makes no
\* other promotion for that record (a source record of an identity is known
\* by its created_millis), and it asks for each history of an identity at
\* most once.
C23_NoRetry ==
    /\ \A i \in DOMAIN log, j \in DOMAIN log :
         (/\ i < j
          /\ log[i].op = "rbp" /\ ~log[i].ok
          /\ log[j].op = "rbp" /\ log[j].id = log[i].id) =>
             log[j].millis # log[i].millis
    /\ \A id \in Ids :
         /\ Cardinality({ i \in Requests(log, "history", id) : log[i].sys = "source" }) <= 1
         /\ Cardinality({ i \in Requests(log, "history", id) : log[i].sys = "target" }) <= 1

\* the entries of a log that belong to an identity
EntriesOf(lg, id) == { i \in DOMAIN lg : lg[i].id = id }

\* the last promotion of a log that succeeded for an identity, 0 if none
LastPromoted(lg, id) ==
    LET done == { i \in Requests(lg, "rbp", id) : lg[i].ok } \cup {0}
    IN CHOOSE k \in done : \A i \in done : i <= k

\* C24: the promotions for an identity are made for its selected records in
\* the order of the list; a timestamp request is the entry right after the
\* promotion of the same record, so it is before the next promotion; once a
\* promotion succeeded the newest event of the target is the one it made,
\* and it carries the timestamp of the request that followed and succeeded;
\* the requests for an identity, its two history requests first, are
\* together in the log, none for another identity between them.
C24_Sequencing ==
    /\ \A i \in DOMAIN log :
         log[i].op = "align" =>
             /\ i > 1
             /\ log[i - 1].op = "rbp" /\ log[i - 1].ok
             /\ log[i - 1].id = log[i].id /\ log[i - 1].env = log[i].env
             /\ log[i].millis = UpdatedMillis(log[i - 1].millis)
    /\ \A id \in reconciled :
         LET k == LastPromoted(log, id)
         IN k > 0 =>
              /\ target[id] # << >>
              /\ target[id][Len(target[id])].environment = log[k].env
              /\ \A j \in DOMAIN target[id] :
                     target[id][j].created_millis > target[id][Len(target[id])].created_millis
                         => (k < Len(log) /\ log[k + 1].op = "align" /\ log[k + 1].ok)
              /\ (k < Len(log) /\ log[k + 1].op = "align" /\ log[k + 1].ok) =>
                     target[id][Len(target[id])].created_millis = log[k + 1].millis
    /\ pc = "done" =>
         \A id \in Ids :
             LET mine == EntriesOf(log, id)
             IN mine # {} =>
                  /\ \A j \in DOMAIN log :
                       (\E i \in mine : i <= j) /\ (\E i \in mine : j <= i) => j \in mine
                  /\ \A h \in Requests(log, "history", id) :
                       \A r \in Requests(log, "rbp", id) : h < r
                  /\ id \in reconciled =>
                       \A n \in 1..Len(PromotedFor(log, id)) :
                           PromotedFor(log, id)[n] = WithEnvironment(selected[id])[n]

\* a run replayed two records of an identity, each with its timestamp
\* request, and went on to the histories of another identity
C24_Witness ==
    /\ pc = "done"
    /\ \E id \in reconciled, other \in Ids :
         /\ other # id
         /\ Cardinality({ i \in Requests(log, "rbp", id) : log[i].ok }) >= 2
         /\ Requests(log, "align", id) # {}
         /\ \E h \in Requests(log, "history", other) : h > LastPromoted(log, id)

\* the requests a system is sent that only read it
ReadRequests == {"names", "versions", "history"}

\* C25: no step of a run changes a trail of the source; every promotion
\* and every timestamp request of the log is sent to the target, and what
\* the source is sent are requests for names, versions and histories.
C25_OneDirectional ==
    [][/\ source' = source
       /\ \A i \in DOMAIN log' :
            /\ log'[i].op \in {"rbp", "align"} => log'[i].sys = "target"
            /\ log'[i].sys = "source" => log'[i].op \in ReadRequests]_vars

\* a run promoted and aligned a record of a source trail
C25_Witness ==
    /\ pc = "done"
    /\ \E id \in reconciled :
         /\ source[id] # << >>
         /\ \E i \in Requests(log, "rbp", id) : log[i].ok
         /\ \E i \in Requests(log, "align", id) : log[i].ok

\* the requests of a log that ask the source for the versions of a bundle
VersionRequests(lg, b) == Requests(lg, "versions", <<b, 0>>)

\* each enumeration and each history is asked for at most once
ProcessedOnce ==
    /\ Cardinality({ i \in DOMAIN log : log[i].op = "names" }) <= 1
    /\ \A b \in DOMAIN Bundles : Cardinality(VersionRequests(log, b)) <= 1
    /\ \A id \in Ids :
         Cardinality({ i \in Requests(log, "history", id) : log[i].sys = "source" }) <= 1

\* the sum of the deficits of the signatures of the source, from the
\* histories fetched for the identity
SumOfDeficits(id) ==
    LET sigs == SignaturesOf(fetched[id].source_promotions)
    IN SumOver(sigs, [sig \in sigs |-> Deficit(id, sig)])

\* C29: a run in which every request is answered comes to its end and
\* stays there; no enumeration and no history is asked for twice, so no
\* bundle version is processed twice; and at the end the promotions made
\* for an identity are at most the sum of its deficits.
C29_Termination ==
    /\ <>[](pc = "done")
    /\ []ProcessedOnce
    /\ [](pc = "done" =>
            \A id \in Ids :
                /\ id \in reconciled =>
                     Cardinality(Requests(log, "rbp", id)) <= SumOfDeficits(id)
                /\ id \notin reconciled => Requests(log, "rbp", id) = {})

\* a run has ended that processed every version of every bundle and made
\* as many promotions for an identity as the sum of its deficits, two
C29_Witness ==
    /\ pc = "done"
    /\ \A id \in Ids : Requests(log, "history", id) # {}
    /\ \E id \in reconciled :
         /\ SumOfDeficits(id) = 2
         /\ Cardinality(Requests(log, "rbp", id)) = 2

\* the bundles a run with project filter P leaves out: those whose project
\* key, 'default' for a bundle without one, is not P
LeftOut(b) ==
    /\ project_filter # NoneVal
    /\ (IF Bundles[b].project_key = NoneVal THEN "default" ELSE Bundles[b].project_key)
         # project_filter

\* the run went through the whole list of bundle names
WholeList ==
    /\ pc = "done"
    /\ exit_status = 0
    /\ \E i \in DOMAIN log : log[i].op = "names" /\ log[i].ok

\* C30: a run makes no request for a bundle the project filter leaves out,
\* nor for a version of it: no versions request, no history request, no
\* promotion, no timestamp request, and no step changes the target's trail
\* of such a version.  A run that went through the whole list asked for the
\* versions of every other bundle, and with every request answered it
\* fetched, reconciled and replayed each of their versions: the replay list
\* is the one computed from the two histories, and the promotions are
\* those of its records.
C30_ProjectFilter ==
    /\ [](\A b \in DOMAIN Bundles :
            LeftOut(b) =>
                /\ VersionRequests(log, b) = {}
                /\ \A v \in DOMAIN VersionsOf[b] :
                     /\ EntriesOf(log, <<b, v>>) = {}
                     /\ <<b, v>> \notin reconciled)
    /\ [][\A b \in DOMAIN Bundles :
            LeftOut(b) =>
                \A v \in DOMAIN VersionsOf[b] : target'[<<b, v>>] = target[<<b, v>>]]_vars
    /\ [](WholeList =>
            \A b \in DOMAIN Bundles :
                ~LeftOut(b) =>
                    /\ VersionRequests(log, b) # {}
                    /\ faults = 0 =>
                         \A v \in DOMAIN VersionsOf[b] :
                             LET id == <<b, v>>
                             IN /\ id \in reconciled /\ id \in finished
                                /\ selected[id] = PromotionsToSync(fetched[id].source_promotions,
                                                                   fetched[id].target_promotions,
                                                                   environment_filter)
                                /\ PromotedFor(log, id) = WithEnvironment(selected[id]))

\* a run with a project filter left out a bundle with a version to replay
\* and replayed a version of the other bundle
C30_Witness ==
    /\ WholeList
    /\ \E b \in DOMAIN Bundles, c \in DOMAIN Bundles :
         /\ LeftOut(b)
         /\ \E v \in DOMAIN VersionsOf[b] : source[<<b, v>>] # << >> /\ target[<<b, v>>] = << >>
         /\ ~LeftOut(c)
         /\ \E v \in DOMAIN VersionsOf[c] : Requests(log, "rbp", <<c, v>>) # {}

\* C11: a timestamp request follows a promotion of the same record that
\* succeeded, and every promotion that succeeded for a record with an
\* integer created_millis t, 0 included, is followed by a timestamp request
\* that carries t + 1.
C11_Alignment ==
    /\ \A i \in DOMAIN log :
         log[i].op = "align" =>
             /\ i > 1
             /\ log[i - 1].op = "rbp" /\ log[i - 1].ok /\ log[i - 1].id = log[i].id
    /\ \A i \in DOMAIN log :
         (log[i].op = "rbp" /\ log[i].ok /\ log[i].millis >= 0) =>
             /\ i < Len(log)
             /\ log[i + 1].op = "align"
             /\ log[i + 1].id = log[i].id
             /\ log[i + 1].millis = log[i].millis + 1

\* C12: a promotion that succeeded for a record whose created_millis is
\* absent or is not a number is followed by no timestamp request.
C12_AlignmentSkip ==
    \A i \in DOMAIN log :
        (log[i].op = "rbp" /\ log[i].ok /\ log[i].millis < 0) =>
            (i = Len(log) \/ log[i + 1].op # "align")

\* a completed promotion of the system itself, not the mirror of a
\* promotion made elsewhere
Eligible(e) ==
    /\ e.subject_type = "PROMOTION"
    /\ e.event_status = "COMPLETED"
    /\ ~StartsWith(e.subject_reference, FedPrefix)

AllEligible(promos) == \A i \in DOMAIN promos : Eligible(promos[i])

\* C14: every event that is counted on the source or on the target, or is
\* selected for replay, is a completed promotion whose subject reference
\* does not start with FED-.
C14_Eligibility ==
    \A id \in reconciled :
        /\ AllEligible(fetched[id].source_promotions)
        /\ AllEligible(fetched[id].target_promotions)
        /\ AllEligible(selected[id])

\* the k most recently created records of a history with the signature
MostRecent(promos, sig, k) ==
    LET hits == { i \in DOMAIN promos : GetPromoSignature(promos[i]) = sig }
    IN { promos[i] : i \in { h \in hits : Cardinality({ j \in hits : j > h }) < k } }

\* C16: the entries selected for a signature with deficit k >= 1 are k
\* distinct source records, the k most recently created ones with that
\* signature.
C16_SelectionPolicy ==
    \A id \in Ids : JustReconciled(id) =>
        \A sig \in SignaturesOf(fetched[id].source_promotions) :
            Deficit(id, sig) >= 1 =>
                { selected[id][i] : i \in { j \in DOMAIN selected[id] :
                                              GetPromoSignature(selected[id][j]) = sig } }
                  = MostRecent(fetched[id].source_promotions, sig, Deficit(id, sig))

(***************************************************************************)
(* Properties of parse_repos_to_set.                                       *)
(***************************************************************************)
\* a promotion record with the repository filter
RecordWith(repos) ==
    Stamp(Template("PROMOTION", "COMPLETED", RefPlain, "DEV", repos, << >>), 0)

\* C17: parse_repos_to_set gives for its own result that result again; it
\* gives the same set for every permutation of the list, the empty set for
\* None and for the empty list, and for the list joined with commas into one
\* element the set of the list; records that differ in these ways only have
\* the same signature.
C17_Normalization ==
    LET x == repo_list.list
        Permuted(p) == [i \in DOMAIN x |-> x[p[i]]]
    IN /\ p_pc = "reparsed" => reparsed_set = parsed_set
       /\ p_pc # "input" =>
            /\ \A p \in Permutations(DOMAIN x) :
                 /\ ParseReposToSet(Permuted(p)) = parsed_set
                 /\ GetPromoSignature(RecordWith(Permuted(p))) = GetPromoSignature(RecordWith(x))
            /\ (~repo_list.given \/ x = << >>) => parsed_set = {}
            /\ x # << >> =>
                 /\ ParseReposToSet(<<Join(x)>>) = parsed_set
                 /\ GetPromoSignature(RecordWith(<<Join(x)>>)) = GetPromoSignature(RecordWith(x))

\* ['b', 'a, b'] was parsed to {a, b}, and that set was parsed again
C17_Witness ==
    /\ p_pc = "reparsed"
    /\ repo_list.list = <<StrB, StrASpB>>
    /\ parsed_set = {StrA, StrB}
    /\ reparsed_set = {StrA, StrB}

\* C18: every member of the set parse_repos_to_set returns is a non-empty
\* string without leading or trailing whitespace.
C18_TrimmedNonEmpty ==
    p_pc # "input" =>
        \A repo \in parsed_set :
            /\ repo # << >>
            /\ Head(repo) # Space
            /\ repo[Len(repo)] # Space

(***************************************************************************)
(* Properties of the sweep of src/sync_rb_promotions.py.                   *)
(***************************************************************************)
\* C19: no record selected for replay has, in the target history, a record
\* with the same environment and the same sets of repository identifiers.
C19_FormatIndependent ==
    \A id \in Ids : JustReconciled(id) =>
        \A i \in DOMAIN selected[id] :
            \A j \in DOMAIN fetched[id].target_promotions :
                GetPromoSignature(selected[id][i])
                  # GetPromoSignature(fetched[id].target_promotions[j])

\* the records of a history that are written as the record is: the same
\* environment and the same repository lists
WrittenAs(promos, promo) ==
    { i \in DOMAIN promos : SameAsTarget(promo, promos[i]) }

\* C20: without an environment filter, when the source history has n records
\* written alike, with an environment, and the target history has m < n of
\* them, n - m of them are selected for replay.
C20_Multiplicity ==
    \A id \in Ids : (JustReconciled(id) /\ environment_filter = "") =>
        \A i \in DOMAIN fetched[id].source_promotions :
            LET promo == fetched[id].source_promotions[i]
                n == Cardinality(WrittenAs(fetched[id].source_promotions, promo))
                m == Cardinality(WrittenAs(fetched[id].target_promotions, promo))
            IN (promo.environment # NoneVal /\ m < n) =>
                   Cardinality(WrittenAs(selected[id], promo)) = n - m

(***************************************************************************)
(* Properties of the event-triggered sync.                                 *)
(***************************************************************************)
\* C6: a run with all variables set whose origin is not the primary source
\* makes no request and no promotion, and ends with status 0.
C6_OriginGuard ==
    (env_vars.complete /\ env_vars.JPD_ORIGIN # PrimarySourceUrl) =>
        /\ e_pc = "idle"
        /\ e_log = << >>
        /\ e_exit = 0

\* a run started by a promotion on B has ended
C6_Witness ==
    /\ env_vars.complete
    /\ env_vars.JPD_ORIGIN = "B"
    /\ e_pc = "idle"
    /\ e_log = << >>
    /\ e_exit = 0

\* C7: with both systems configured with primary source A, the script
\* never promotes on A, promotes on B at most once per promotion made on A,
\* and a run started by a promotion on B makes no promotion.
C7_LoopPrevention ==
    /\ replays["A"] = 0
    /\ replays["B"] <= userPromotions["A"]
    /\ env_vars.JPD_ORIGIN = "B" => \A i \in DOMAIN e_log : e_log[i].op # "rbp"

\* a promotion made on A was replayed on B, and the run that the replay
\* started on B has ended; nothing is left to run
C7_Witness ==
    /\ userPromotions["A"] = 1
    /\ userPromotions["B"] = 0
    /\ replays["B"] = 1
    /\ env_vars.JPD_ORIGIN = "B"
    /\ e_pc = "idle"
    /\ events = << >>

\* C13: a run whose promotion succeeded and whose timestamp request failed
\* ends with status 0, as a run whose timestamp request succeeded does.
C13_AlignmentFailure ==
    (e_pc = "idle" /\ e_log # << >> /\ e_log[Len(e_log)].op = "align") => e_exit = 0

\* the most recent promotion to the environment that the trail holds has
\* the repository sets of the event
IdenticalForEnvironment(trail, event, environment) ==
    LET hits == { i \in DOMAIN trail :
                    IsOwnPromotion(trail[i]) /\ trail[i].environment = environment }
        last == CHOOSE i \in hits : \A j \in hits : j <= i
    IN /\ hits # {}
       /\ ParseReposToSet(trail[last].included_repository_keys)
            = ParseReposToSet(event.included_repository_keys)
       /\ ParseReposToSet(trail[last].excluded_repository_keys)
            = ParseReposToSet(event.excluded_repository_keys)

\* C15: a run that has the answer of the target and is about to promote
\* found no identical promotion as the target's most recent one for the
\* triggering environment.  Without a promotion by a user on the target,
\* the target's trail is still the one the request was answered from.
C15_ShortCircuit ==
    (/\ e_pc = "promote"
     /\ e_log[Len(e_log)].ok
     /\ userPromotions[env_vars.TARGET_URL] = 0) =>
        ~IdenticalForEnvironment(trails[env_vars.TARGET_URL], source_promotion_event,
                                 env_vars.ENVIRONMENT)


\* C26: a run whose request for the target's audit trail failed makes no
\* promotion and no timestamp request.
C26_TargetFetchFailure ==
    \A i \in DOMAIN e_log :
        (e_log[i].op = "audit" /\ e_log[i].sys = env_vars.TARGET_URL /\ ~e_log[i].ok) =>
            \A j \in DOMAIN e_log : j > i => e_log[j].op \notin {"rbp", "align"}


\* the trail holds a promotion to the environment that was made on the
\* system itself
HasPromotionTo(trail, environment) ==
    \E i \in DOMAIN trail :
        /\ trail[i].subject_type = "PROMOTION"
        /\ trail[i].subject_reference # RefFed
        /\ trail[i].environment = environment

\* C27: a run whose request for the source's audit trail failed, or whose
\* source holds no promotion of its own to the triggering environment, has
\* ended with a status that is not 0, and beside the request for the names
\* the source audit request is the only one it made: no request for the
\* target's trail, no promotion, no timestamp request.
C27_SourceLookup ==
    \A i \in DOMAIN e_log :
        (/\ e_log[i].op = "audit"
         /\ e_log[i].sys = env_vars.SOURCE_URL
         /\ \/ ~e_log[i].ok
            \/ ~HasPromotionTo(trails[env_vars.SOURCE_URL], env_vars.ENVIRONMENT)) =>
            /\ e_pc = "idle"
            /\ e_exit # 0
            /\ i = Len(e_log)
            /\ \A j \in 1..(i - 1) : e_log[j].op = "names"

\* a run was started by the mirror of a promotion, was given the source's
\* audit trail and has ended
C27_Witness ==
    /\ e_pc = "idle"
    /\ e_log # << >>
    /\ e_log[Len(e_log)].op = "audit"
    /\ e_log[Len(e_log)].ok
    /\ env_vars.JPD_ORIGIN = PrimarySourceUrl
    /\ trails[env_vars.SOURCE_URL] # << >>
    /\ ~HasPromotionTo(trails[env_vars.SOURCE_URL], env_vars.ENVIRONMENT)
    /\ e_exit = 1


\* C28: a run makes at most one promotion and at most one timestamp
\* request; a timestamp request is the entry right after a promotion that
\* succeeded; a run whose promotion failed has ended with the return code
\* of the command, which is not 0, and the promotion is its last request.
C28_SingleReplay ==
    /\ Cardinality({ i \in DOMAIN e_log : e_log[i].op = "rbp" }) <= 1
    /\ Cardinality({ i \in DOMAIN e_log : e_log[i].op = "align" }) <= 1
    /\ \A i \in DOMAIN e_log :
         /\ e_log[i].op = "align" =>
              i > 1 /\ e_log[i - 1].op = "rbp" /\ e_log[i - 1].ok
         /\ (e_log[i].op = "rbp" /\ ~e_log[i].ok) =>
              /\ i = Len(e_log)
              /\ e_pc = "idle"
              /\ e_exit \in FailureCodes
              /\ e_exit # 0

\* a run whose promotion failed has ended, after a run that promoted and
\* aligned
C28_Witness ==
    /\ e_pc = "idle"
    /\ e_log # << >>
    /\ e_log[Len(e_log)].op = "rbp"
    /\ ~e_log[Len(e_log)].ok
    /\ e_exit = 2
    /\ replays[Other(PrimarySourceUrl)] >= 1

====
